---- MODULE Spec2Model ----
(***************************************************************************)
(* Model of src/seat/pointer/theme.rs: the scale-aware cursor theme cache  *)
(* (ScaledThemeList), the per-pointer state (PointerInner) with its update *)
(* algorithm, the ThemeManager constructors and the ThemedPointer handle.  *)
(* The Wayland objects are modelled by the requests issued on them.        *)
(***************************************************************************)
EXTENDS Integers, Sequences, FiniteSets, TLC

VARIABLES
    available,   \* result of wayland_cursor::is_available() on this host
    version,     \* negotiated version of the surfaces the compositor creates
    host_theme,  \* what the host's cursor theme provides (fixed per host)
    mgr,         \* "none" before init, then "ready" or "failed"
    themes,      \* ScaledThemeList.themes: sequence of <<scale, theme>>
    load_log,    \* history: the sizes passed to load_theme, in call order
    inner,       \* sequence of PointerInner states, one per constructed pointer
    steps,       \* number of operations executed so far
    last         \* history: the operation executed last and the requests it issued

vars == <<available, version, host_theme, mgr, themes, load_log, inner, steps, last>>

----------------------------------------------------------------------------
(* Bounds of the model *)

MaxSteps == 6         \* operations executed in one run
MaxPointers == 2      \* pointer states constructed by the manager
MaxHandles == 2       \* live ThemedPointer handles per state
MaxScale == 2         \* scale factors a notification delivers: 1..MaxScale
MaxSerial == 1        \* input serials supplied to set_cursor: 0..MaxSerial

(* Program constants *)

BaseCursorSize == 16      \* load_theme(.., 16 * scale, ..)
DamageBufferSince == 4    \* surface version that supports damage_buffer

Names == {"left_ptr", "bogus"}
Scales == 1..MaxScale
Serials == 0..MaxSerial
NoSerial == -1
SerialArgs == Serials \cup {NoSerial}
SurfaceVersions == (DamageBufferSince - 1)..DamageBufferSince
ThemeKinds == {"full", "nobuffer", "noinfo", "empty"}

NoCursor == [found |-> FALSE]
NoBuffer == <<>>
NoInfo == <<>>

----------------------------------------------------------------------------
(* The theme loader (wayland_cursor), as far as the code observes it *)

\* load_theme(name, size, shm): the loaded theme; kind is what the host's
\* theme directory provides
load_theme(size, kind) == [size |-> size, kind |-> kind]

\* CursorTheme::get_cursor(name): on a "full" host "left_ptr" is a complete
\* cursor, on a "nobuffer" host its frame 0 has neither buffer nor geometry,
\* on a "noinfo" host frame 0 has a buffer but no geometry, and an "empty"
\* theme (failed load) resolves nothing; "bogus" is in no theme
CursorTheme_get_cursor(theme, name) ==
    CASE theme.kind = "full" /\ name = "left_ptr" ->
            [found |-> TRUE, buffer |-> <<name, theme.size>>,
             info |-> <<theme.size, theme.size + 1, theme.size \div 8, theme.size \div 4>>]
      [] theme.kind = "nobuffer" /\ name = "left_ptr" ->
            [found |-> TRUE, buffer |-> NoBuffer, info |-> NoInfo]
      [] theme.kind = "noinfo" /\ name = "left_ptr" ->
            [found |-> TRUE, buffer |-> <<name, theme.size>>, info |-> NoInfo]
      [] OTHER -> NoCursor

----------------------------------------------------------------------------
(* ScaledThemeList *)

\* variant: the lookup never finds a loaded theme
position_none(list, scale) == 0

\* self.themes.iter().position(|&(s, _)| s == scale); 0 stands for None
position(list, scale) ==
    IF \E i \in 1..Len(list) : list[i][1] = scale
    THEN CHOOSE i \in 1..Len(list) :
            /\ list[i][1] = scale
            /\ \A j \in 1..(i - 1) : list[j][1] # scale
    ELSE 0

\* variant: the new theme is filed under its pixel size instead of its scale
get_cursor_size_key(list, name, scale, kind) ==
    LET idx == position(list, scale) IN
    IF idx # 0
    THEN [cursor |-> CursorTheme_get_cursor(list[idx][2], name),
          themes |-> list,
          loaded |-> <<>>]
    ELSE LET new_theme == load_theme(BaseCursorSize * scale, kind) IN
         [cursor |-> CursorTheme_get_cursor(new_theme, name),
          themes |-> Append(list, <<BaseCursorSize * scale, new_theme>>),
          loaded |-> <<BaseCursorSize * scale>>]

\* variant: a theme whose load failed is loaded again on the next lookup
get_cursor_retry(list, name, scale, kind) ==
    LET idx == position(list, scale) IN
    IF idx # 0 /\ list[idx][2].kind # "empty"
    THEN [cursor |-> CursorTheme_get_cursor(list[idx][2], name),
          themes |-> list,
          loaded |-> <<>>]
    ELSE LET new_theme == load_theme(BaseCursorSize * scale, kind) IN
         [cursor |-> CursorTheme_get_cursor(new_theme, name),
          themes |-> IF idx # 0 THEN [list EXCEPT ![idx] = <<scale, new_theme>>]
                     ELSE Append(list, <<scale, new_theme>>),
          loaded |-> <<BaseCursorSize * scale>>]

\* ScaledThemeList::get_cursor: the cursor, the list afterwards and the
\* sizes passed to load_theme by this call
get_cursor(list, name, scale, kind) ==
    LET idx == position(list, scale) IN
    IF idx # 0
    THEN [cursor |-> CursorTheme_get_cursor(list[idx][2], name),
          themes |-> list,
          loaded |-> <<>>]
    ELSE LET new_theme == load_theme(BaseCursorSize * scale, kind) IN
         [cursor |-> CursorTheme_get_cursor(new_theme, name),
          themes |-> Append(list, <<scale, new_theme>>),
          loaded |-> <<BaseCursorSize * scale>>]

----------------------------------------------------------------------------
(* Requests *)

SurfaceReq(p, req, args) == [obj |-> "surface", id |-> p, req |-> req, args |-> args]
PointerReq(p, req, args) == [obj |-> "pointer", id |-> p, req |-> req, args |-> args]

\* variant: damage_buffer only above the version that introduced it
damage_request_gt(p, ver, w, h) ==
    IF ver > DamageBufferSince
    THEN [obj |-> "surface", id |-> p, req |-> "damage_buffer", args |-> <<0, 0, w, h>>]
    ELSE [obj |-> "surface", id |-> p, req |-> "damage", args |-> <<0, 0, w, h>>]

\* the damage request of an update, by the version of the surface
damage_request(p, ver, w, h) ==
    IF ver >= DamageBufferSince
    THEN SurfaceReq(p, "damage_buffer", <<0, 0, w, h>>)
    ELSE SurfaceReq(p, "damage", <<0, 0, w, h>>)

\* variant: the pointer's set_cursor is issued before the surface is committed
update_requests_early(p, st, ver, buffer, geo) ==
    << SurfaceReq(p, "set_buffer_scale", <<st.scale_factor>>),
       SurfaceReq(p, "attach", <<buffer, 0, 0>>),
       damage_request(p, ver, geo[1], geo[2]),
       PointerReq(p, "set_cursor", <<st.last_serial, p, geo[3], geo[4]>>),
       SurfaceReq(p, "commit", <<>>) >>

\* the requests of a successful update, in the order they are issued
update_requests(p, st, ver, buffer, geo) ==
    << SurfaceReq(p, "set_buffer_scale", <<st.scale_factor>>),
       SurfaceReq(p, "attach", <<buffer, 0, 0>>),
       damage_request(p, ver, geo[1], geo[2]),
       SurfaceReq(p, "commit", <<>>),
       PointerReq(p, "set_cursor", <<st.last_serial, p, geo[3], geo[4]>>) >>

\* variant: the buffer scale is set before the frame buffer is looked up
update_cursor_eager(p, st, list, ver, kind) ==
    LET r == get_cursor(list, st.current_cursor, st.scale_factor, kind)
        cursor == r.cursor
    IN  IF ~cursor.found
        THEN [result |-> "err", reqs |-> <<>>, themes |-> r.themes, loaded |-> r.loaded]
        ELSE IF cursor.buffer = NoBuffer
        THEN [result |-> "err",
              reqs |-> <<SurfaceReq(p, "set_buffer_scale", <<st.scale_factor>>)>>,
              themes |-> r.themes, loaded |-> r.loaded]
        ELSE LET geo == IF cursor.info = NoInfo THEN <<0, 0, 0, 0>> ELSE cursor.info IN
             [result |-> "ok",
              reqs |-> update_requests(p, st, ver, cursor.buffer, geo),
              themes |-> r.themes,
              loaded |-> r.loaded]

\* variant: a frame without geometry fails the update like a missing buffer
update_cursor_strict(p, st, list, ver, kind) ==
    LET r == get_cursor(list, st.current_cursor, st.scale_factor, kind)
        cursor == r.cursor
    IN  IF ~cursor.found
        THEN [result |-> "err", reqs |-> <<>>, themes |-> r.themes, loaded |-> r.loaded]
        ELSE IF cursor.buffer = NoBuffer \/ cursor.info = NoInfo
        THEN [result |-> "err", reqs |-> <<>>, themes |-> r.themes, loaded |-> r.loaded]
        ELSE [result |-> "ok",
              reqs |-> update_requests(p, st, ver, cursor.buffer, cursor.info),
              themes |-> r.themes,
              loaded |-> r.loaded]

\* PointerInner::update_cursor on state st of pointer p; the cast
\* `self.scale_factor as u32` keeps the bits of the i32 and cache keys are only
\* compared for equality, so a key is represented by the i32 it was cast from
update_cursor(p, st, list, ver, kind) ==
    LET r == get_cursor(list, st.current_cursor, st.scale_factor, kind)
        cursor == r.cursor
    IN  IF ~cursor.found
        THEN [result |-> "err", reqs |-> <<>>, themes |-> r.themes, loaded |-> r.loaded]
        ELSE IF cursor.buffer = NoBuffer
        THEN [result |-> "err", reqs |-> <<>>, themes |-> r.themes, loaded |-> r.loaded]
        ELSE LET geo == IF cursor.info = NoInfo THEN <<0, 0, 0, 0>> ELSE cursor.info IN
             [result |-> "ok",
              reqs |-> update_requests(p, st, ver, cursor.buffer, geo),
              themes |-> r.themes,
              loaded |-> r.loaded]

----------------------------------------------------------------------------
(* Ownership of a PointerInner *)

\* number of Rc<RefCell<PointerInner>> owners: the ThemedPointer handles and,
\* for theme_pointer_with_impl, the event closure assigned to the pointer
strong_count(st) == st.handles + (IF st.handler THEN 1 ELSE 0)

\* variant: the listener's reference always resolves to the state
upgrade_always(st) == TRUE

\* Weak::upgrade(&winner) succeeds
upgrade(st) == strong_count(st) > 0

\* variant: the surface is destroyed whenever an owner goes away
drop_requests_every(p, before, after) ==
    IF strong_count(before) > 0
    THEN <<SurfaceReq(p, "destroy", <<>>)>>
    ELSE <<>>

\* Drop for PointerInner, run when the last owner of st goes away
drop_requests(p, before, after) ==
    IF strong_count(before) > 0 /\ strong_count(after) = 0
    THEN <<SurfaceReq(p, "destroy", <<>>)>>
    ELSE <<>>

PointerInner(kind) ==
    [kind |-> kind,
     current_cursor |-> "left_ptr",
     last_serial |-> 0,
     scale_factor |-> 1,
     handles |-> 1,
     handler |-> (kind = "impl"),
     listener |-> (kind = "plain"),
     destroyed |-> 0]

Pointers == 1..Len(inner)

\* one more operation is executed
Tick == steps < MaxSteps /\ steps' = steps + 1

\* the operations that are a call of ThemedPointer::set_cursor
SetCursorOps == {"set_cursor", "event_set_cursor"}

\* RefCell guards: borrow_mut() takes one, the end of its scope releases it
Borrow(cell, p) == [a |-> "borrow", cell |-> <<cell, p>>]
Release(cell, p) == [a |-> "release", cell |-> <<cell, p>>]

\* the guards of PointerInner::update_cursor: self.themes.borrow_mut(), held
\* until the function returns, by `?` or at its end
update_cursor_guards == <<Borrow("themes", 0), Release("themes", 0)>>

\* the guards of ThemedPointer::set_cursor: self.inner.borrow_mut() around
\* the assignments and update_cursor
set_cursor_guards(p) ==
    <<Borrow("inner", p)>> \o update_cursor_guards \o <<Release("inner", p)>>

\* the guards of the scale closure: inner.borrow_mut() once the upgrade succeeded
scale_guards(p, delivered) ==
    IF delivered
    THEN <<Borrow("inner", p)>> \o update_cursor_guards \o <<Release("inner", p)>>
    ELSE <<>>

\* variant: the event closure borrows the state while the callback runs
event_guards_held(p, callback) ==
    <<Borrow("inner", p)>> \o callback \o <<Release("inner", p)>>

\* the guards of the event closure of theme_pointer_with_impl around the
\* guards of the callback: the closure only clones the Rc
event_guards(p, callback) == callback

\* the guard events of operation op on state p, in order
op_guards(op, p) ==
    CASE op = "set_cursor" -> set_cursor_guards(p)
      [] op = "event_set_cursor" -> event_guards(p, set_cursor_guards(p))
      [] op \in {"event", "event_keep"} -> event_guards(p, <<>>)
      [] OTHER -> <<>>

\* the record of an operation; repeat tells that it is a set_cursor call that
\* immediately follows a set_cursor call on the same state with the same
\* arguments
Op(op, p, name, serial, result, reqs) ==
    [op |-> op, ptr |-> p, name |-> name, serial |-> serial, scale |-> 0,
     delivered |-> FALSE, result |-> result, reqs |-> reqs,
     guards |-> op_guards(op, p),
     repeat |-> /\ op \in SetCursorOps
                /\ last.op \in SetCursorOps
                /\ last.ptr = p
                /\ last.name = name
                /\ last.serial = serial]

ScaleOp(p, scale_factor, delivered, result, reqs) ==
    [op |-> "scale", ptr |-> p, name |-> "", serial |-> NoSerial,
     scale |-> scale_factor, delivered |-> delivered, result |-> result, reqs |-> reqs,
     guards |-> scale_guards(p, delivered),
     repeat |-> FALSE]

----------------------------------------------------------------------------
Init ==
    /\ available \in BOOLEAN
    /\ version \in SurfaceVersions
    /\ host_theme \in ThemeKinds
    /\ mgr = "none"
    /\ themes = <<>>
    /\ load_log = <<>>
    /\ inner = <<>>
    /\ steps = 0
    /\ last = [op |-> "none", ptr |-> 0, name |-> "", serial |-> NoSerial, scale |-> 0,
               delivered |-> FALSE, result |-> "none", reqs |-> <<>>,
               guards |-> <<>>, repeat |-> FALSE]

\* variant: init does not ask whether the cursor library is available
ThemeManagerInitUnchecked ==
    /\ mgr = "none"
    /\ Tick
    /\ mgr' = "ready"
    /\ last' = Op("init", 0, "", NoSerial, "ok", <<>>)
    /\ UNCHANGED <<available, version, host_theme, themes, load_log, inner>>

\* ThemeManager::init
ThemeManagerInit ==
    /\ mgr = "none"
    /\ Tick
    /\ mgr' = IF available THEN "ready" ELSE "failed"
    /\ last' = Op("init", 0, "", NoSerial, IF available THEN "ok" ELSE "err", <<>>)
    /\ UNCHANGED <<available, version, host_theme, themes, load_log, inner>>

\* variant: theme_pointer renders the default cursor right away
ThemePointerEager ==
    /\ mgr = "ready"
    /\ Len(inner) < MaxPointers
    /\ Tick
    /\ LET p == Len(inner) + 1
           u == update_cursor(p, PointerInner("plain"), themes, version, host_theme)
       IN  /\ inner' = Append(inner, PointerInner("plain"))
           /\ themes' = u.themes
           /\ load_log' = load_log \o u.loaded
           /\ last' = Op("theme_pointer", p, "", NoSerial, "ok", u.reqs)
    /\ UNCHANGED <<available, version, host_theme, mgr>>

\* ThemeManager::theme_pointer
ThemePointer ==
    /\ mgr = "ready"
    /\ Tick
    /\ Len(inner) < MaxPointers
    /\ inner' = Append(inner, PointerInner("plain"))
    /\ last' = Op("theme_pointer", Len(inner) + 1, "", NoSerial, "ok", <<>>)
    /\ UNCHANGED <<available, version, host_theme, mgr, themes, load_log>>

\* ThemeManager::theme_pointer_with_impl
ThemePointerWithImpl ==
    /\ mgr = "ready"
    /\ Tick
    /\ Len(inner) < MaxPointers
    /\ inner' = Append(inner, PointerInner("impl"))
    /\ last' = Op("theme_pointer_with_impl", Len(inner) + 1, "", NoSerial, "ok", <<>>)
    /\ UNCHANGED <<available, version, host_theme, mgr, themes, load_log>>

\* variant: a call without a serial resets last_serial
set_cursor_assign_reset(st, name, serial) ==
    [st EXCEPT !.last_serial = IF serial # NoSerial THEN serial ELSE 0,
               !.current_cursor = name]

\* variant: a call without a serial advances last_serial by itself
set_cursor_assign_advance(st, name, serial) ==
    [st EXCEPT !.last_serial = IF serial # NoSerial THEN serial ELSE @ + 1,
               !.current_cursor = name]

\* the state after ThemedPointer::set_cursor(name, serial) assigned its fields
set_cursor_assign(st, name, serial) ==
    [st EXCEPT !.last_serial = IF serial # NoSerial THEN serial ELSE @,
               !.current_cursor = name]

\* variant: the cursor name and the serial are kept once for all pointers
DoSetCursorGlobal(op, p, name, serial) ==
    LET st == set_cursor_assign(inner[p], name, serial)
        u == update_cursor(p, st, themes, version, host_theme)
    IN  /\ inner' = [q \in Pointers |-> set_cursor_assign(inner[q], name, serial)]
        /\ themes' = u.themes
        /\ load_log' = load_log \o u.loaded
        /\ last' = Op(op, p, name, serial, u.result, u.reqs)
        /\ UNCHANGED <<available, version, host_theme, mgr>>

\* the effect of ThemedPointer::set_cursor on state p, as operation op
DoSetCursor(op, p, name, serial) ==
    LET st == set_cursor_assign(inner[p], name, serial)
        u == update_cursor(p, st, themes, version, host_theme)
    IN  /\ inner' = [inner EXCEPT ![p] = st]
        /\ themes' = u.themes
        /\ load_log' = load_log \o u.loaded
        /\ last' = Op(op, p, name, serial, u.result, u.reqs)
        /\ UNCHANGED <<available, version, host_theme, mgr>>

\* ThemedPointer::set_cursor through a live handle
SetCursor(p, name, serial) ==
    /\ inner[p].handles > 0
    /\ Tick
    /\ DoSetCursor("set_cursor", p, name, serial)

\* variant: the listener renders even after the state was torn down
ScaleChangeStale(p, scale_factor) ==
    /\ Tick
    /\ IF inner[p].listener
       THEN LET st == [inner[p] EXCEPT !.scale_factor = scale_factor]
                u == update_cursor(p, st, themes, version, host_theme)
            IN  /\ inner' = [inner EXCEPT ![p] = st]
                /\ themes' = u.themes
                /\ load_log' = load_log \o u.loaded
                /\ last' = ScaleOp(p, scale_factor, TRUE, u.result, u.reqs)
                /\ UNCHANGED <<available, version, host_theme, mgr>>
       ELSE /\ last' = ScaleOp(p, scale_factor, FALSE, "none", <<>>)
            /\ UNCHANGED <<available, version, host_theme, mgr, themes, load_log, inner>>

\* the closure given to setup_surface: a scale-change notification for the
\* surface of p; a surface without that closure drops the notification
ScaleChange(p, scale_factor) ==
    /\ Tick
    /\ IF inner[p].listener /\ upgrade(inner[p])
       THEN LET st == [inner[p] EXCEPT !.scale_factor = scale_factor]
                u == update_cursor(p, st, themes, version, host_theme)
            IN  /\ inner' = [inner EXCEPT ![p] = st]
                /\ themes' = u.themes
                /\ load_log' = load_log \o u.loaded
                /\ last' = ScaleOp(p, scale_factor, TRUE, u.result, u.reqs)
                /\ UNCHANGED <<available, version, host_theme, mgr>>
       ELSE /\ last' = ScaleOp(p, scale_factor, FALSE, "none", <<>>)
            /\ UNCHANGED <<available, version, host_theme, mgr, themes, load_log, inner>>

\* variant: a clone gets a surface and a state of its own, copied from p
CloneDeep(p) ==
    /\ inner[p].handles > 0
    /\ Tick
    /\ Len(inner) < MaxPointers
    /\ inner' = Append(inner, [inner[p] EXCEPT !.handles = 1])
    /\ last' = Op("clone", p, "", NoSerial, "ok", <<>>)
    /\ UNCHANGED <<available, version, host_theme, mgr, themes, load_log>>

\* Clone for ThemedPointer
Clone(p) ==
    /\ inner[p].handles > 0
    /\ Tick
    /\ inner[p].handles < MaxHandles
    /\ inner' = [inner EXCEPT ![p].handles = @ + 1]
    /\ last' = Op("clone", p, "", NoSerial, "ok", <<>>)
    /\ UNCHANGED <<available, version, host_theme, mgr, themes, load_log>>

\* a ThemedPointer handle goes out of scope
DropHandle(p) ==
    /\ inner[p].handles > 0
    /\ Tick
    /\ LET after == [inner[p] EXCEPT !.handles = @ - 1]
           reqs == drop_requests(p, inner[p], after)
       IN  /\ inner' = [inner EXCEPT ![p] =
                            [after EXCEPT !.destroyed = @ + Len(reqs)]]
           /\ last' = Op("drop", p, "", NoSerial, "ok", reqs)
    /\ UNCHANGED <<available, version, host_theme, mgr, themes, load_log>>

\* the closure given to pointer.quick_assign: a pointer event is forwarded to
\* the callback with a fresh ThemedPointer; the callback ignores it
PointerEventIgnore(p) ==
    /\ inner[p].handler
    /\ Tick
    /\ last' = Op("event", p, "", NoSerial, "ok", <<>>)
    /\ UNCHANGED <<available, version, host_theme, mgr, themes, load_log, inner>>

\* ... the callback calls set_cursor on the ThemedPointer it was given
PointerEventSetCursor(p, name, serial) ==
    /\ inner[p].handler
    /\ Tick
    /\ DoSetCursor("event_set_cursor", p, name, serial)

\* ... the callback keeps the ThemedPointer it was given
PointerEventKeep(p) ==
    /\ inner[p].handler
    /\ Tick
    /\ inner[p].handles < MaxHandles
    /\ inner' = [inner EXCEPT ![p].handles = @ + 1]
    /\ last' = Op("event_keep", p, "", NoSerial, "ok", <<>>)
    /\ UNCHANGED <<available, version, host_theme, mgr, themes, load_log>>

\* the pointer object goes away and its event closure, which owns a
\* reference to the state, is dropped with it
ReleaseHandler(p) ==
    /\ inner[p].handler
    /\ Tick
    /\ LET after == [inner[p] EXCEPT !.handler = FALSE]
           reqs == drop_requests(p, inner[p], after)
       IN  /\ inner' = [inner EXCEPT ![p] =
                            [after EXCEPT !.destroyed = @ + Len(reqs)]]
           /\ last' = Op("release_handler", p, "", NoSerial, "ok", reqs)
    /\ UNCHANGED <<available, version, host_theme, mgr, themes, load_log>>

Next ==
    \/ ThemeManagerInit
    \/ ThemePointer
    \/ ThemePointerWithImpl
    \/ \E p \in Pointers, name \in Names, serial \in SerialArgs :
            SetCursor(p, name, serial)
    \/ \E p \in Pointers, s \in Scales : ScaleChange(p, s)
    \/ \E p \in Pointers : Clone(p)
    \/ \E p \in Pointers : DropHandle(p)
    \/ \E p \in Pointers : PointerEventIgnore(p)
    \/ \E p \in Pointers, name \in Names, serial \in SerialArgs :
            PointerEventSetCursor(p, name, serial)
    \/ \E p \in Pointers : PointerEventKeep(p)
    \/ \E p \in Pointers : ReleaseHandler(p)

Spec == Init /\ [][Next]_vars

TypeOK ==
    /\ mgr \in {"none", "ready", "failed"}
    /\ Len(inner) <= MaxPointers
    /\ \A p \in Pointers : inner[p].handles \in 0..MaxHandles

----------------------------------------------------------------------------
(* Vocabulary of the properties *)

\* the last operation ran update_cursor
LastUpdated == last.op \in SetCursorOps \/ (last.op = "scale" /\ last.delivered)

\* what the cache resolves for name at scale, once it holds a theme for scale
Resolved(list, name, scale) ==
    CursorTheme_get_cursor(list[position(list, scale)][2], name)

\* the cursor the last update resolved
LastCursor ==
    Resolved(themes, inner[last.ptr].current_cursor, inner[last.ptr].scale_factor)

----------------------------------------------------------------------------
\* C1: set_cursor with a name the theme at the current scale does not resolve
\* reports failure and leaves last_serial and current_cursor of the state
\* unchanged, with or without a serial.
C1_UnknownNameKeepsState ==
    [][ last'.op \in SetCursorOps
        /\ ~Resolved(themes', last'.name, inner'[last'.ptr].scale_factor).found
        => /\ last'.result = "err"
           /\ inner'[last'.ptr].last_serial = inner[last'.ptr].last_serial
           /\ inner'[last'.ptr].current_cursor = inner[last'.ptr].current_cursor ]_vars

----------------------------------------------------------------------------
\* the last operation issued destroy() on the surface of p
DestroyIssued(p) ==
    \E i \in 1..Len(last.reqs) :
        last.reqs[i] = SurfaceReq(p, "destroy", <<>>)

\* C2 as stated: once no ThemedPointer handle of a state is left its surface
\* has been destroyed exactly once, and never while a handle is alive, for
\* states of theme_pointer and of theme_pointer_with_impl alike.
C2_DestroyOnLastHandle ==
    \A p \in Pointers :
        inner[p].destroyed = IF inner[p].handles = 0 THEN 1 ELSE 0

\* C2 amended: the surface of a state is destroyed exactly once, by the
\* operation that releases its last owner, and never while an owner is left;
\* the owners are the ThemedPointer handles and, for theme_pointer_with_impl,
\* also the event closure installed on the pointer, so for theme_pointer
\* dropping the last handle destroys the surface.
C2_DestroyOnLastOwner ==
    \A p \in Pointers :
        /\ inner[p].destroyed = IF strong_count(inner[p]) = 0 THEN 1 ELSE 0
        /\ inner[p].kind = "plain" => strong_count(inner[p]) = inner[p].handles
        /\ DestroyIssued(p) <=>
              /\ last.op \in {"drop", "release_handler"}
              /\ last.ptr = p
              /\ strong_count(inner[p]) = 0
        /\ DestroyIssued(p) => Len(last.reqs) = 1

\* the last handle of a theme_pointer state was dropped while the state of a
\* theme_pointer_with_impl pointer lives on
C2_Witness ==
    /\ last.op = "drop"
    /\ inner[last.ptr].kind = "plain"
    /\ inner[last.ptr].handles = 0
    /\ DestroyIssued(last.ptr)
    /\ \E q \in Pointers : inner[q].kind = "impl" /\ inner[q].destroyed = 0

----------------------------------------------------------------------------
\* C3: the cache holds at most one theme per scale, an entry is never removed
\* or replaced, and load_theme was called exactly once per cached scale,
\* however many names were resolved from however many pointer states.
C3_CacheInv ==
    /\ \A i, j \in 1..Len(themes) : themes[i][1] = themes[j][1] => i = j
    /\ Len(load_log) = Len(themes)
    /\ \A i \in 1..Len(themes) :
          /\ load_log[i] = BaseCursorSize * themes[i][1]
          /\ themes[i][2].size = BaseCursorSize * themes[i][1]
    /\ \A p \in Pointers :
          LastUpdated /\ last.ptr = p => position(themes, inner[p].scale_factor) # 0

C3_EntriesKept ==
    /\ Len(themes') >= Len(themes)
    /\ \A i \in 1..Len(themes) : themes'[i] = themes[i]

C3_OneLoadPerScale == []C3_CacheInv /\ [][C3_EntriesKept]_vars

\* two pointer states resolved names three times against two scales
C3_Witness ==
    /\ Len(themes) = 2
    /\ Len(load_log) = 2
    /\ Len(inner) = 2
    /\ steps = 5
    /\ LastUpdated

----------------------------------------------------------------------------
\* C4: a successful update issues set_buffer_scale(scale), attach(buffer,0,0),
\* one damage request, commit and then set_cursor(last_serial, surface, hx, hy)
\* on the pointer, each once and in this order.
C4_RequestOrder ==
    LastUpdated /\ last.result = "ok" =>
        LET p == last.ptr
            r == last.reqs
        IN  /\ Len(r) = 5
            /\ r[1] = SurfaceReq(p, "set_buffer_scale", <<inner[p].scale_factor>>)
            /\ r[2].obj = "surface" /\ r[2].id = p /\ r[2].req = "attach"
            /\ r[2].args = <<LastCursor.buffer, 0, 0>>
            /\ r[3].obj = "surface" /\ r[3].id = p
            /\ r[3].req \in {"damage", "damage_buffer"}
            /\ r[4] = SurfaceReq(p, "commit", <<>>)
            /\ r[5].obj = "pointer" /\ r[5].id = p /\ r[5].req = "set_cursor"
            /\ r[5].args[1] = inner[p].last_serial
            /\ r[5].args[2] = p
            /\ LastCursor.info # NoInfo =>
                  /\ r[5].args[3] = LastCursor.info[3]
                  /\ r[5].args[4] = LastCursor.info[4]

\* a set_cursor with a serial succeeded at scale 2
C4_Witness ==
    /\ last.op = "set_cursor"
    /\ last.result = "ok"
    /\ last.serial = 1
    /\ inner[last.ptr].scale_factor = 2
    /\ Len(last.reqs) = 5

----------------------------------------------------------------------------
\* C5: an update whose cursor name is not resolved at the current scale, or
\* whose frame 0 has no buffer, fails and issues no request at all.
C5_FailedUpdateSilent ==
    /\ LastUpdated /\ (~LastCursor.found \/ LastCursor.buffer = NoBuffer) =>
          last.result = "err" /\ last.reqs = <<>>
    /\ LastUpdated /\ last.result = "err" => last.reqs = <<>>

\* an update found the cursor but no buffer for its frame 0
C5_Witness ==
    /\ LastUpdated
    /\ LastCursor.found
    /\ LastCursor.buffer = NoBuffer
    /\ last.result = "err"

----------------------------------------------------------------------------
\* C6: in a successful update a surface of version >= 4 gets
\* damage_buffer(0,0,w,h) and no damage, a surface of a lower version gets
\* damage(0,0,w,h) and no damage_buffer, w and h being the width and height of
\* the resolved frame 0.
C6_DamageByVersion ==
    LastUpdated /\ last.result = "ok" =>
        LET p == last.ptr
            dmg == {i \in 1..Len(last.reqs) :
                        last.reqs[i].req \in {"damage", "damage_buffer"}}
        IN  /\ Cardinality(dmg) = 1
            /\ \A i \in dmg :
                  /\ last.reqs[i].obj = "surface" /\ last.reqs[i].id = p
                  /\ last.reqs[i].req =
                        IF version >= 4 THEN "damage_buffer" ELSE "damage"
                  /\ LastCursor.info # NoInfo =>
                        last.reqs[i].args =
                            <<0, 0, LastCursor.info[1], LastCursor.info[2]>>

\* a version 4 surface was updated with a frame that has a geometry
C6_Witness ==
    /\ LastUpdated
    /\ last.result = "ok"
    /\ version = 4
    /\ LastCursor.info # NoInfo
    /\ last.reqs[3].req = "damage_buffer"

----------------------------------------------------------------------------
\* C7: the scale listener does not own the state: the state of a
\* theme_pointer handle is torn down when its handles are gone although the
\* listener is still registered, and a notification delivered after that
\* changes no state, loads no theme and issues no request.
C7_ListenerOwnsNothing ==
    \A p \in Pointers :
        inner[p].listener /\ inner[p].handles = 0 /\ ~inner[p].handler =>
            inner[p].destroyed = 1

C7_LateNotificationIgnored ==
    last'.op = "scale" /\ strong_count(inner[last'.ptr]) = 0 =>
        /\ inner' = inner
        /\ themes' = themes
        /\ load_log' = load_log
        /\ last'.reqs = <<>>
        /\ ~last'.delivered

C7_WeakListener == []C7_ListenerOwnsNothing /\ [][C7_LateNotificationIgnored]_vars

\* a notification with a new scale arrived for a state whose handles are gone
C7_Witness ==
    /\ last.op = "scale"
    /\ inner[last.ptr].listener
    /\ inner[last.ptr].handles = 0
    /\ last.scale # inner[last.ptr].scale_factor

----------------------------------------------------------------------------
\* C8: for every handle the manager constructs, by theme_pointer or by
\* theme_pointer_with_impl, a scale-change notification with value s for its
\* surface sets the scale factor of its (live) state to s and runs an update.
C8_ListenerOnEveryPointer ==
    last.op = "scale" /\ strong_count(inner[last.ptr]) > 0 =>
        /\ inner[last.ptr].scale_factor = last.scale
        /\ last.delivered

----------------------------------------------------------------------------
\* C9: set_cursor with a serial s sets last_serial to s, without a serial it
\* keeps last_serial, nothing else changes last_serial (a scale change does
\* not), a new state starts at 0, and every set_cursor request on the pointer
\* carries the last_serial of its state.
C9_SerialStep ==
    /\ last'.op \in SetCursorOps =>
          inner'[last'.ptr].last_serial =
              IF last'.serial # NoSerial THEN last'.serial
              ELSE inner[last'.ptr].last_serial
    /\ \A p \in Pointers :
          inner'[p].last_serial # inner[p].last_serial =>
              last'.op \in SetCursorOps /\ last'.ptr = p /\ last'.serial # NoSerial
    /\ \A p \in 1..Len(inner') : p \notin Pointers => inner'[p].last_serial = 0
    /\ \A i \in 1..Len(last'.reqs) :
          last'.reqs[i].req = "set_cursor" =>
              last'.reqs[i].args[1] = inner'[last'.reqs[i].id].last_serial

C9_LastSerial == [][C9_SerialStep]_vars

\* a scale change re-issued set_cursor with the serial an earlier call supplied
C9_Witness ==
    /\ last.op = "scale"
    /\ last.result = "ok"
    /\ inner[last.ptr].last_serial = 1
    /\ last.reqs[5].args[1] = 1

----------------------------------------------------------------------------
\* C10: theme_pointer yields a state with current_cursor "left_ptr", scale
\* factor 1 and last_serial 0 and issues no request; after the first
\* theme_pointer call the cache is still empty; requests are only issued by
\* an update (set_cursor call or scale-change notification) on that state, or
\* by its teardown.
C10_FreshPointer ==
    /\ last.op = "theme_pointer" =>
          /\ inner[last.ptr].current_cursor = "left_ptr"
          /\ inner[last.ptr].scale_factor = 1
          /\ inner[last.ptr].last_serial = 0
          /\ last.reqs = <<>>
    /\ last.op = "theme_pointer" /\ steps = 2 =>
          themes = <<>> /\ load_log = <<>>
    /\ last.reqs # <<>> =>
          /\ LastUpdated \/ last.op \in {"drop", "release_handler"}
          /\ \A i \in 1..Len(last.reqs) : last.reqs[i].id = last.ptr

\* the first theme_pointer call after init returned
C10_Witness ==
    /\ last.op = "theme_pointer"
    /\ steps = 2
    /\ Len(inner) = 1
    /\ inner[1].handles = 1

----------------------------------------------------------------------------
\* C11: a set_cursor(name, serial) call that immediately follows a call with
\* the same arguments on the same state issues the same requests, returns the
\* same result and leaves the pointer state as the first call left it.
C11_RepeatStep ==
    last'.repeat =>
        /\ last'.reqs = last.reqs
        /\ last'.result = last.result
        /\ inner' = inner

C11_SetCursorIdempotent == [][C11_RepeatStep]_vars

\* a successful set_cursor without a serial was repeated
C11_Witness ==
    /\ last.repeat
    /\ last.result = "ok"
    /\ last.serial = NoSerial
    /\ Len(last.reqs) = 5

----------------------------------------------------------------------------
\* C12: the handles of one origin share one state and one surface: a clone
\* and a handle given to or kept by the event callback add an owner to the
\* existing state, create no state or surface and issue no request, and an
\* update through any handle or by the listener uses the cursor name and the
\* serial that the latest set_cursor through any handle left in that state.
C12_HandleStep ==
    last'.op \in {"clone", "event", "event_keep"} =>
        /\ Len(inner') = Len(inner)
        /\ last'.reqs = <<>>
        /\ \A q \in Pointers :
              [inner'[q] EXCEPT !.handles = 0] = [inner[q] EXCEPT !.handles = 0]
        /\ inner'[last'.ptr].handles =
              inner[last'.ptr].handles + (IF last'.op = "event" THEN 0 ELSE 1)

C12_SharedStep ==
    LET p == last'.ptr
        r == last'.reqs
    IN  /\ last'.op = "scale" /\ last'.delivered =>
              /\ inner'[p].current_cursor = inner[p].current_cursor
              /\ r # <<>> => r[2].args[1][1] = inner[p].current_cursor
        /\ (last'.op = "scale" /\ last'.delivered)
              \/ (last'.op \in SetCursorOps /\ last'.serial = NoSerial) =>
              /\ inner'[p].last_serial = inner[p].last_serial
              /\ r # <<>> => r[5].args[1] = inner[p].last_serial

C12_SharedState == [][C12_HandleStep /\ C12_SharedStep]_vars

\* a theme_pointer_with_impl state with a second handle was updated without a
\* serial and used the serial an earlier call had left
C12_Witness ==
    /\ last.op = "set_cursor"
    /\ last.serial = NoSerial
    /\ last.result = "ok"
    /\ inner[last.ptr].kind = "impl"
    /\ inner[last.ptr].handles = 2
    /\ last.reqs[5].args[1] = 1

----------------------------------------------------------------------------
\* C13: init fails when the cursor library is not available and then there
\* is no manager, no cache entry, no pointer state and no request; when the
\* library is available init succeeds.
C13_InitAvailability ==
    /\ mgr # "none" => (mgr = "ready" <=> available)
    /\ last.op = "init" =>
          /\ last.result = (IF available THEN "ok" ELSE "err")
          /\ last.reqs = <<>>
          /\ themes = <<>> /\ load_log = <<>> /\ inner = <<>>
    /\ mgr # "ready" =>
          /\ inner = <<>> /\ themes = <<>> /\ load_log = <<>>
          /\ last.op \in {"none", "init"}

\* init failed on a host without the cursor library
C13_Witness ==
    /\ ~available
    /\ last.op = "init"
    /\ last.result = "err"
    /\ mgr = "failed"

----------------------------------------------------------------------------
\* C14 as stated: when the theme resolves the name but frame 0 has no buffer
\* or no geometry, the update fails and issues no request.
C14_FrameUnavailableFails ==
    LastUpdated /\ LastCursor.found
        /\ (LastCursor.buffer = NoBuffer \/ LastCursor.info = NoInfo) =>
        last.result = "err" /\ last.reqs = <<>>

\* C14 amended: when the theme resolves the name but frame 0 has no buffer,
\* the update fails like for a cursor that is not found and issues no request;
\* when frame 0 has a buffer but no geometry, the update succeeds and issues
\* its requests with width, height and hotspot 0.
C14_FrameWithoutGeometry ==
    LastUpdated /\ LastCursor.found =>
        /\ LastCursor.buffer = NoBuffer =>
              last.result = "err" /\ last.reqs = <<>>
        /\ LastCursor.buffer # NoBuffer /\ LastCursor.info = NoInfo =>
              /\ last.result = "ok"
              /\ Len(last.reqs) = 5
              /\ last.reqs[2].args[1] = LastCursor.buffer
              /\ last.reqs[3].args = <<0, 0, 0, 0>>
              /\ last.reqs[5].args[3] = 0
              /\ last.reqs[5].args[4] = 0

\* a cursor whose frame 0 has a buffer but no geometry was set
C14_Witness ==
    /\ last.op \in SetCursorOps
    /\ LastCursor.found
    /\ LastCursor.buffer # NoBuffer
    /\ LastCursor.info = NoInfo
    /\ last.result = "ok"

----------------------------------------------------------------------------
\* C15: a scale-change notification with value s for a live state sets its
\* scale factor to s and runs an update; a failure of that update issues
\* nothing, current_cursor and last_serial stay as they were, the scale factor
\* stays s, and a later set_cursor resolves against the scale factor of the
\* state.
C15_ScaleStep ==
    LET p == last'.ptr IN
    /\ last'.op = "scale" /\ strong_count(inner[p]) > 0 =>
          /\ last'.delivered
          /\ inner'[p].scale_factor = last'.scale
          /\ inner'[p].current_cursor = inner[p].current_cursor
          /\ inner'[p].last_serial = inner[p].last_serial
          /\ last'.result = "err" => last'.reqs = <<>>
          /\ position(themes', last'.scale) # 0
    /\ last'.op \in SetCursorOps =>
          /\ inner'[p].scale_factor = inner[p].scale_factor
          /\ position(themes', inner[p].scale_factor) # 0

C15_BestEffortScaleChange == [][C15_ScaleStep]_vars

----------------------------------------------------------------------------
\* C16: a theme whose load failed is still cached, once, under its scale;
\* every later resolution of any name at that scale yields nothing, and
\* load_theme is not called for that scale again.
C16_FailedEntry ==
    \A i \in 1..Len(themes) :
        themes[i][2].kind = "empty" =>
            /\ Cardinality({j \in 1..Len(load_log) :
                                load_log[j] = BaseCursorSize * themes[i][1]}) = 1
            /\ Cardinality({j \in 1..Len(themes) : themes[j][1] = themes[i][1]}) = 1
            /\ \A n \in Names : ~Resolved(themes, n, themes[i][1]).found
            /\ LastUpdated /\ inner[last.ptr].scale_factor = themes[i][1] =>
                  last.result = "err" /\ last.reqs = <<>>

C16_NoRetryStep ==
    \A i \in 1..Len(themes) :
        themes[i][2].kind = "empty" =>
            /\ Len(themes') >= i
            /\ themes'[i] = themes[i]
            /\ \A j \in (Len(load_log) + 1)..Len(load_log') :
                  load_log'[j] # BaseCursorSize * themes[i][1]

C16_FailedLoadSticks == []C16_FailedEntry /\ [][C16_NoRetryStep]_vars

\* on a host whose theme load fails a second resolution at the same scale
\* failed without a second load
C16_Witness ==
    /\ host_theme = "empty"
    /\ Len(load_log) = 1
    /\ Len(inner) = 1
    /\ steps = 4
    /\ last.op \in SetCursorOps
    /\ last.repeat
    /\ last.result = "err"

----------------------------------------------------------------------------
\* the cells whose guard is held after the first k guard events of the last
\* operation
HeldAfter(k) ==
    {last.guards[i].cell : i \in
        {i \in 1..k : /\ last.guards[i].a = "borrow"
                      /\ \A j \in (i + 1)..k :
                            last.guards[j] # [last.guards[i] EXCEPT !.a = "release"]}}

\* C17: no operation borrows a PointerInner or the theme list while its guard
\* is held, every guard an operation takes is released when it returns, on
\* success and on failure, and every update runs under the guards of its
\* state and of the theme list.
C17_NoReentrantBorrow ==
    /\ \A k \in 1..Len(last.guards) :
          IF last.guards[k].a = "borrow"
          THEN last.guards[k].cell \notin HeldAfter(k - 1)
          ELSE last.guards[k].cell \in HeldAfter(k - 1)
    /\ HeldAfter(Len(last.guards)) = {}
    /\ LastUpdated =>
          \E i, j \in 1..Len(last.guards) :
              /\ i < j
              /\ last.guards[i] = Borrow("inner", last.ptr)
              /\ last.guards[j] = Borrow("themes", 0)
              /\ <<"inner", last.ptr>> \in HeldAfter(j)

\* the event callback called set_cursor and the update failed
C17_Witness ==
    /\ last.op = "event_set_cursor"
    /\ last.result = "err"
    /\ Len(last.guards) = 4

----------------------------------------------------------------------------
\* C18: the scale factor of every state is an integer >= 1, and an update
\* looks up and, if needed, loads the theme under exactly that scale factor,
\* sized 16 * scale factor, for every scale a notification delivers.
C18_ScaleIsKey ==
    /\ \A p \in Pointers :
          inner[p].scale_factor \in Int /\ inner[p].scale_factor >= 1
    /\ \A i \in 1..Len(themes) :
          themes[i][2].size = BaseCursorSize * themes[i][1]
    /\ LastUpdated =>
          LET scale == inner[last.ptr].scale_factor
              idx == position(themes, scale)
          IN  /\ idx # 0
              /\ themes[idx][2].size = 16 * scale
              /\ last.op = "scale" => scale = last.scale
              /\ last.result = "ok" =>
                    /\ last.reqs[1].args = <<scale>>
                    /\ last.reqs[2].args[1][2] = 16 * scale

\* a notification delivered a scale above 1 and the update at it succeeded
C18_Witness ==
    /\ last.op = "scale"
    /\ last.scale > 1
    /\ last.result = "ok"
    /\ inner[last.ptr].scale_factor = last.scale
    /\ \E i \in 1..Len(themes) : themes[i] = <<last.scale, load_theme(16 * last.scale, host_theme)>>

----------------------------------------------------------------------------
\* C19: an operation on one pointer state leaves current_cursor, last_serial
\* and scale_factor of every other state as they were and issues requests
\* only on the surface and the pointer of its own state; the cache is all it
\* shares with the other states.
C19_FrameStep ==
    /\ \A q \in Pointers :
          q # last'.ptr =>
              /\ inner'[q].current_cursor = inner[q].current_cursor
              /\ inner'[q].last_serial = inner[q].last_serial
              /\ inner'[q].scale_factor = inner[q].scale_factor
              /\ inner'[q] = inner[q]
    /\ \A i \in 1..Len(last'.reqs) :
          /\ last'.reqs[i].id = last'.ptr
          /\ last'.reqs[i].req = "set_cursor" => last'.reqs[i].args[2] = last'.ptr

C19_IndependentStates == [][C19_FrameStep]_vars

\* with two states at the same scale, a set_cursor on one changed its name
\* and serial while the other kept its own; one theme load served both updates
C19_Witness ==
    /\ Len(inner) = 2
    /\ last.op = "set_cursor"
    /\ last.serial = 1
    /\ \E q \in Pointers :
          /\ q # last.ptr
          /\ inner[q].current_cursor # inner[last.ptr].current_cursor
          /\ inner[q].last_serial # inner[last.ptr].last_serial
          /\ inner[q].scale_factor = inner[last.ptr].scale_factor
    /\ Len(load_log) = 1
    /\ steps = 5

----------------------------------------------------------------------------
\* C20: once destroy() was issued on the surface of a state, no operation
\* issues another request for that surface: no set_buffer_scale, attach,
\* damage, damage_buffer, commit or destroy on it and no set_cursor naming it.
C20_DeadStep ==
    \A q \in Pointers :
        inner[q].destroyed > 0 =>
            /\ \A i \in 1..Len(last'.reqs) :
                  /\ last'.reqs[i].id # q
                  /\ last'.reqs[i].req = "set_cursor" => last'.reqs[i].args[2] # q
            /\ inner'[q].destroyed = inner[q].destroyed

C20_NothingAfterDestroy == [][C20_DeadStep]_vars

\* a scale-change notification arrived for a surface that had been rendered to
\* and then destroyed
C20_Witness ==
    /\ last.op = "scale"
    /\ inner[last.ptr].destroyed = 1
    /\ inner[last.ptr].listener
    /\ position(themes, inner[last.ptr].scale_factor) # 0
    /\ last.reqs = <<>>

====
